---- MODULE Spec2Model ----
(***************************************************************************)
(* passport-github-token: the GitHubTokenStrategy class.                   *)
(*                                                                         *)
(* Two source files define the class: src/src/index.js (private-email      *)
(* scope, tokens looked up in body and query) and src/unnamed/part_000     *)
(* (tokens looked up in body, query and headers, no scope handling).  The  *)
(* field strategy.source says which of the two was loaded; every operator  *)
(* that differs between them branches on it.                               *)
(*                                                                         *)
(* JavaScript values:                                                      *)
(*   - a string is a TLA+ string, undefined is the string Undefined;       *)
(*   - an object is a record, a property it lacks is a key outside its     *)
(*     DOMAIN (reading it gives Undefined);                                *)
(*   - an array is a sequence;                                             *)
(*   - a display name is a sequence of one-character strings, so that      *)
(*     String.prototype.split can be computed;                             *)
(*   - a response body is either text that is not JSON or the text of a    *)
(*     JSON value: JSONparse fails on the first and yields the value of    *)
(*     the second.                                                         *)
(***************************************************************************)
EXTENDS Integers, Sequences, FiniteSets, TLC

VARIABLES
    strategy,      \* the constructed GitHubTokenStrategy (this)
    incoming,      \* attempts the host has still to dispatch
    pc,            \* per attempt: which callback is pending
    req,           \* per attempt: the request (closure of authenticate)
    accessToken,   \* per attempt: let accessToken
    refreshToken,  \* per attempt: let refreshToken
    profile,       \* per attempt: let profile (closure of userProfile)
    log            \* per attempt: the calls made and received, in order

vars == <<strategy, incoming, pc, req, accessToken, refreshToken, profile, log>>

---------------------------------------------------------------------------
(* Bounds *)

\* Longest list of email records in a secondary response.
MaxEmails == 2

\* The calls of authenticate the host may make on one strategy.
Attempts == {1, 2}

---------------------------------------------------------------------------
(* JavaScript values *)

Undefined == "undefined"

\* No value yet (a variable of a closure that does not exist yet).
Nil == <<>>

\* ToBoolean on strings and undefined.
Truthy(v) == v \notin {Undefined, ""}

\* a || b
Or(a, b) == IF Truthy(a) THEN a ELSE b

\* obj[key]
Prop(obj, key) == IF key \in DOMAIN obj THEN obj[key] ELSE Undefined

\* String.prototype.toLowerCase on the field names in use.
ToLowerCase(s) ==
    CASE s \in {"access_token", "Access_Token", "ACCESS_TOKEN"} -> "access_token"
      [] s \in {"refresh_token", "Refresh_Token", "REFRESH_TOKEN"} -> "refresh_token"
      [] OTHER -> s

ToUpperCase(s) ==
    CASE s \in {"access_token", "Access_Token", "ACCESS_TOKEN"} -> "ACCESS_TOKEN"
      [] s \in {"refresh_token", "Refresh_Token", "REFRESH_TOKEN"} -> "REFRESH_TOKEN"
      [] OTHER -> s

\* The record r without key k when v is Undefined, with k |-> v otherwise.
With(r, k, v) == IF v = Undefined THEN r ELSE (k :> v) @@ r

---------------------------------------------------------------------------
(* constructor *)

Sources == {"index.js", "part_000"}

\* The options the application may pass.
Options ==
    { fo @@ so @@ po :
        fo \in {Nil, [accessTokenField |-> "Access_Token"]},
        so \in {Nil, [scope |-> <<"repo">>], [scope |-> <<"repo", "user:email">>]},
        po \in {Nil, [passReqToCallback |-> TRUE]} }

Constructor(source, options) ==
    LET base == [ source |-> source,
                  name |-> "github-token",
                  accessTokenField |-> Or(Prop(options, "accessTokenField"), "access_token"),
                  refreshTokenField |-> Or(Prop(options, "refreshTokenField"), "refresh_token"),
                  profileURL |-> Or(Prop(options, "profileURL"), "https://api.github.com/user"),
                  passReqToCallback |-> "passReqToCallback" \in DOMAIN options ]
    IN  \* OAuth2Strategy's constructor keeps options.scope as this._scope
        IF "scope" \in DOMAIN options THEN [scope |-> options.scope] @@ base ELSE base

---------------------------------------------------------------------------
(* authenticate: the extraction of the tokens *)

\* req.body && req.body[field]
Lookup(r, location, field) ==
    IF location \in DOMAIN r THEN Prop(r[location], field) ELSE Undefined

\* req.headers && (req.headers[field] || req.headers[field.toLowerCase()])
LookupHeaders(r, field) ==
    IF "headers" \in DOMAIN r
    THEN Or(Prop(r.headers, field), Prop(r.headers, ToLowerCase(field)))
    ELSE Undefined

Extract(source, r, field) ==
    IF source = "index.js"
    THEN Or(Lookup(r, "body", field), Lookup(r, "query", field))
    ELSE Or(Or(Lookup(r, "body", field), Lookup(r, "query", field)),
            LookupHeaders(r, field))

\* Mutant of FailMessage: the message names the default field, not the
\* configured one.
FailMessageDefaultName(field) == [message |-> <<"You should provide ", "access_token">>]

\* `You should provide ${this._accessTokenField}`: the template's parts
FailMessage(field) == [message |-> <<"You should provide ", field>>]


---------------------------------------------------------------------------
(* JSON and errors *)

\* The text of a JSON value, and a text that is not JSON.
Text(value) == [json |-> value]

NotJSON == [text |-> "not a JSON"]

JSONnull == [t |-> "null"]

JSONobject(o) == [t |-> "object", o |-> o]

JSONarray(a) == [t |-> "array", a |-> a]

JSONstring(s) == [t |-> "string", s |-> s]

JSONnumber(n) == [t |-> "number", n |-> n]

\* JSON.parse(text) returns (and does not throw a SyntaxError)
IsJSON(text) == "json" \in DOMAIN text

JSONparse(text) == text.json

SyntaxError == [name |-> "SyntaxError"]

TypeError == [name |-> "TypeError"]

InternalOAuthError(message, oauthError) ==
    [name |-> "InternalOAuthError", message |-> message, oauthError |-> oauthError]

\* json[key] for a key holding a string; reading a property of null throws.
Field(json, key) == IF json.t = "object" THEN Prop(json.o, key) ELSE Undefined

\* json.name, a sequence of characters ('' when absent: it is only used
\* as json.name || '' and under json.name ? ... : '')
NameOf(json) ==
    IF json.t = "object" /\ "name" \in DOMAIN json.o THEN json.o.name ELSE <<>>

\* json.length is truthy
HasLength(json) ==
    CASE json.t = "array" -> Len(json.a) > 0
      [] json.t = "string" -> json.s # ""
      [] OTHER -> FALSE

---------------------------------------------------------------------------
(* userProfile: the primary call *)

\* The first index of sep in s, 0 when there is none.
IndexOf(s, sep) ==
    IF \E i \in 1..Len(s) : s[i] = sep
    THEN CHOOSE i \in 1..Len(s) : s[i] = sep /\ \A j \in 1..(i - 1) : s[j] # sep
    ELSE 0

\* String.prototype.split(sep) with a one-character separator
RECURSIVE Split(_, _)
Split(s, sep) ==
    LET i == IndexOf(s, sep)
    IN  IF i = 0 THEN <<s>>
        ELSE <<SubSeq(s, 1, i - 1)>> \o Split(SubSeq(s, i + 1, Len(s)), sep)

\* String.prototype.split(sep, limit)
SplitLimit(s, sep, limit) ==
    LET all == Split(s, sep)
    IN  SubSeq(all, 1, IF Len(all) < limit THEN Len(all) ELSE limit)

\* array[i] || '' with i counted from 1
ItemOrEmpty(array, i) == IF i <= Len(array) THEN array[i] ELSE <<>>

\* Mutant of ProfileError: the data of the transport's error is never read.
ProfileErrorGeneric(error) ==
    [ name |-> "InternalOAuthError",
      message |-> "Failed to fetch user profile",
      oauthError |-> error ]

\* The new InternalOAuthError of the error branch of the primary callback.
ProfileError(error) ==
    IF /\ "data" \in DOMAIN error
       /\ IsJSON(error.data)
       /\ JSONparse(error.data).t # "null"
    THEN InternalOAuthError(Field(JSONparse(error.data), "message"), error.statusCode)
    ELSE InternalOAuthError("Failed to fetch user profile", error)

\* emails: of the profile literal
PrimaryEmails(source, json) ==
    IF source = "index.js"
    THEN IF Truthy(Field(json, "email"))
         THEN [emails |-> <<[value |-> Field(json, "email")]>>]
         ELSE Nil
    ELSE [emails |-> <<[value |-> Or(Field(json, "email"), "")]>>]

\* The profile literal, for a body that parsed to something other than null.
Normalize(source, body) ==
    LET json == JSONparse(body)
        parts == SplitLimit(NameOf(json), " ", 2)
    IN  PrimaryEmails(source, json) @@
        [ provider |-> "github",
          id |-> Field(json, "id"),
          username |-> Field(json, "login"),
          displayName |-> NameOf(json),
          name |-> [ familyName |->
                       IF NameOf(json) # <<>> THEN ItemOrEmpty(parts, 2) ELSE <<>>,
                     givenName |->
                       IF NameOf(json) # <<>> THEN ItemOrEmpty(parts, 1) ELSE <<>> ],
          photos |-> <<>>,
          raw |-> body,
          json |-> json ]

\* Mutant of ParseProfile: a body that does not parse gives the profile of
\* an empty object.
ParseProfileLenient(source, body) ==
    IF ~IsJSON(body) THEN [profile |-> Normalize(source, Text(JSONobject(Nil)))]
    ELSE IF JSONparse(body).t = "null" THEN [error |-> TypeError]
    ELSE [profile |-> Normalize(source, body)]

\* The try block of the primary callback: the error it catches, or the profile.
ParseProfile(source, body) ==
    IF ~IsJSON(body) THEN [error |-> SyntaxError]
    ELSE IF JSONparse(body).t = "null" THEN [error |-> TypeError]
    ELSE [profile |-> Normalize(source, body)]

\* Mutant of WantsEmails: the scope is not tested.
WantsEmailsAlways(this) == this.source = "index.js"

\* this._scope && this._scope.indexOf('user:email') !== -1
WantsEmails(this) ==
    /\ this.source = "index.js"
    /\ "scope" \in DOMAIN this
    /\ \E i \in 1..Len(this.scope) : this.scope[i] = "user:email"

---------------------------------------------------------------------------
(* userProfile: the secondary call *)

\* Mutant of MergeOne: a record whose address is the first entry's value
\* sets the flags and is appended as well.
MergeOneAlwaysAppend(emails, publicValue, email) ==
    Append(IF publicValue # Undefined /\ publicValue = email.email
           THEN [emails EXCEPT ![1] =
                   [value |-> @.value, primary |-> email.primary,
                    verified |-> email.verified]]
           ELSE emails,
           [value |-> email.email, primary |-> email.primary, verified |-> email.verified])

\* Mutant of MergeOne: the record is matched against every entry, not the
\* first alone.
MergeOneMatchAny(emails, publicValue, email) ==
    IF \E i \in 1..Len(emails) : emails[i].value = email.email
    THEN LET i == CHOOSE i \in 1..Len(emails) : emails[i].value = email.email
         IN  [emails EXCEPT ![i] =
                [value |-> @.value, primary |-> email.primary, verified |-> email.verified]]
    ELSE Append(emails,
            [value |-> email.email, primary |-> email.primary, verified |-> email.verified])

\* One turn of json.forEach: publicValue is publicEmail.value, or Undefined
\* when publicEmail is undefined.
MergeOne(emails, publicValue, email) ==
    IF publicValue # Undefined /\ publicValue = email.email
    THEN [emails EXCEPT ![1] =
            [value |-> @.value, primary |-> email.primary, verified |-> email.verified]]
    ELSE Append(emails,
            [value |-> email.email, primary |-> email.primary, verified |-> email.verified])

RECURSIVE MergeLoop(_, _, _)
MergeLoop(emails, publicValue, list) ==
    IF list = <<>> THEN emails
    ELSE MergeLoop(MergeOne(emails, publicValue, Head(list)), publicValue, Tail(list))

\* Mutant of MergeEmails: the profile is rebuilt around the merged emails.
MergeEmailsRebuilt(p, list) ==
    LET emails == IF "emails" \in DOMAIN p THEN p.emails ELSE <<>>
        publicValue == IF Len(emails) > 0 THEN emails[1].value ELSE Undefined
    IN  [emails |-> MergeLoop(emails, publicValue, list)] @@
        [p EXCEPT !.photos = MergeLoop(emails, publicValue, list)]

\* profile.emails = profile.emails || []; publicEmail = profile.emails[0]; forEach
MergeEmails(p, list) ==
    LET emails == IF "emails" \in DOMAIN p THEN p.emails ELSE <<>>
        publicValue == IF Len(emails) > 0 THEN emails[1].value ELSE Undefined
    IN  [emails |-> MergeLoop(emails, publicValue, list)] @@ p

\* The callback of the secondary call: the profile it passes to done, or the
\* exception that leaves it.
EnrichProfile(p, response) ==
    IF "error" \in DOMAIN response THEN [profile |-> p]
    ELSE IF ~IsJSON(response.body) THEN [profile |-> p]
    ELSE LET json == JSONparse(response.body)
         IN  IF json.t = "null" THEN [throw |-> TypeError]
             ELSE IF ~HasLength(json) THEN [profile |-> p]
             ELSE IF json.t # "array" THEN [throw |-> TypeError]
             ELSE [profile |-> MergeEmails(p, json.a)]


---------------------------------------------------------------------------
(* The inputs: requests, transport responses, completions of verify *)

\* The request of the tests: both tokens in the body.
PlainRequest(this) ==
    [body |-> (this.accessTokenField :> "body-token")
              @@ (this.refreshTokenField :> "body-refresh")]

BodyMaps(this) ==
    { With(With(Nil, this.accessTokenField, x), this.refreshTokenField, y) :
        x \in {Undefined, "", "body-token"}, y \in {Undefined, "body-refresh"} }

QueryMaps(this) ==
    { With(With(Nil, this.accessTokenField, x), this.refreshTokenField, y) :
        x \in {Undefined, "query-token"}, y \in {Undefined, "query-refresh"} }

\* The access token's header arrives under the configured name, in lower
\* case or in upper case.
HeaderMaps(this) ==
    { With(With(Nil, k, x), this.refreshTokenField, y) :
        k \in { this.accessTokenField, ToLowerCase(this.accessTokenField),
                ToUpperCase(this.accessTokenField) },
        x \in {Undefined, "header-token"}, y \in {Undefined, "header-refresh"} }

Requests(this) ==
    { b @@ q @@ h :
        b \in {Nil} \cup { [body |-> m] : m \in BodyMaps(this) },
        q \in {Nil} \cup { [query |-> m] : m \in QueryMaps(this) },
        h \in {Nil} \cup { [headers |-> m] : m \in HeaderMaps(this) } }

GithubUser == [id |-> "1", login |-> "ghaiklor"]

Names ==
    { <<>>,
      <<"E", "u", "g">>,
      <<"E", "u", "g", " ", "O", "b", "r">>,
      <<"A", " ", "B", " ", "C">>,
      <<"A", " ", " ", "B">> }

PublicEmail == "ghaiklor@gmail.com"

\* The JSON objects of a primary response (an email, when there is one, is
\* a non-empty string).
ProviderUsers ==
    {Nil} \cup
    { eo @@ no @@ GithubUser :
        eo \in {Nil, [email |-> PublicEmail]},
        no \in {Nil} \cup { [name |-> n] : n \in Names } }

TransportErrors ==
    { [statusCode |-> 500],
      [statusCode |-> 500, data |-> NotJSON],
      [statusCode |-> 500, data |-> Text(JSONnull)],
      [statusCode |-> 403, data |-> Text(JSONobject(Nil))],
      [statusCode |-> 502, data |-> Text(JSONstring("Bad Gateway"))],
      [statusCode |-> 401, data |-> Text(JSONobject([message |-> "Bad credentials"]))] }

\* What the transport passes to the callback of the primary call.
PrimaryResponses ==
    { [error |-> e] : e \in TransportErrors }
    \cup { [body |-> NotJSON], [body |-> Text(JSONnull)], [body |-> Text(JSONstring("x"))] }
    \cup { [body |-> Text(JSONobject(o))] : o \in ProviderUsers }

EmailRecords ==
    { [email |-> PublicEmail, primary |-> TRUE, verified |-> TRUE],
      [email |-> PublicEmail, primary |-> FALSE, verified |-> FALSE],
      [email |-> "private@github.com", primary |-> FALSE, verified |-> TRUE],
      [email |-> "private@github.com", primary |-> FALSE, verified |-> FALSE] }

EmailLists == UNION { [1..n -> EmailRecords] : n \in 0..MaxEmails }

\* What the transport passes to the callback of the secondary call.
SecondaryResponses ==
    { [error |-> e] : e \in TransportErrors }
    \cup { [body |-> NotJSON], [body |-> Text(JSONnull)], [body |-> Text(JSONnumber(7))],
           [body |-> Text(JSONstring("x"))], [body |-> Text(JSONobject(Nil))] }
    \cup { [body |-> Text(JSONarray(l))] : l \in EmailLists }

\* The arguments the application passes to verified: a null, false or
\* missing argument is a key the record lacks.
Completions ==
    { e @@ u @@ i :
        e \in {Nil, [error |-> [name |-> "Error", message |-> "database down"]]},
        u \in {Nil, [user |-> [id |-> "user-1"]]},
        i \in {Nil, [info |-> [info |-> "foo"]]} }

\* The plain inputs: the response and the completion of the tests.
PlainResponse ==
    [body |-> Text(JSONobject(
        [name |-> <<"E", "u", "g", " ", "O", "b", "r">>, email |-> PublicEmail]
        @@ GithubUser))]

PlainCompletion == [user |-> [id |-> "user-1"], info |-> [info |-> "foo"]]

\* The attempts the host makes in this run, and whether it makes more
\* than one.
Hosted == incoming \cup { a \in Attempts : pc[a] # "idle" }

Concurrent == Cardinality(Hosted) > 1

\* The inputs of concurrent attempts: requests with different tokens, and
\* responses and completions that tell the attempts apart.
ConcurrentRequests(this) ==
    { PlainRequest(this),
      [query |-> With(With(Nil, this.accessTokenField, "query-token"),
                      this.refreshTokenField, "query-refresh")],
      [body |-> With(Nil, this.refreshTokenField, "body-refresh")] }

ConcurrentPrimaryResponses ==
    { PlainResponse,
      [body |-> Text(JSONobject([name |-> <<"E", "u", "g">>] @@ GithubUser))],
      [error |-> [statusCode |-> 401,
                  data |-> Text(JSONobject([message |-> "Bad credentials"]))]] }

ConcurrentSecondaryResponses ==
    { [error |-> [statusCode |-> 500]],
      [body |-> Text(JSONarray(
          <<[email |-> "private@github.com", primary |-> FALSE, verified |-> TRUE]>>))],
      [body |-> Text(JSONarray(
          <<[email |-> PublicEmail, primary |-> TRUE, verified |-> TRUE],
            [email |-> "private@github.com", primary |-> FALSE, verified |-> FALSE]>>))] }

ConcurrentCompletions == { PlainCompletion, [info |-> [info |-> "foo"]] }

\* The inputs are explored one dimension at a time: every request with the
\* plain response and completion, every response and completion with the
\* plain request; concurrent attempts draw from the sets above.
RequestsFor(this) ==
    IF Concurrent THEN ConcurrentRequests(this) ELSE Requests(this)

PrimaryResponsesFor(this, r) ==
    IF Concurrent THEN ConcurrentPrimaryResponses
    ELSE IF r = PlainRequest(this) THEN PrimaryResponses ELSE {PlainResponse}

SecondaryResponsesFor(this, r) ==
    IF Concurrent THEN ConcurrentSecondaryResponses
    ELSE IF r = PlainRequest(this) THEN SecondaryResponses
    ELSE {[body |-> Text(JSONarray(<<>>))]}

CompletionsFor(this, r) ==
    IF Concurrent THEN ConcurrentCompletions
    ELSE IF r = PlainRequest(this) THEN Completions ELSE {PlainCompletion}

---------------------------------------------------------------------------
(* The calls of an attempt, as they are logged *)

\* this._oauth2.get(url, accessToken, callback)
GetCall(url, at) == [ev |-> "get", url |-> url, accessToken |-> at]

\* The transport calls the callback of the primary or of the secondary call
CallbackCall(call, response) == [ev |-> "callback", call |-> call, response |-> response]

\* userProfile calls done(error) or done(null, profile)
DoneCall(result) == [ev |-> "done", result |-> result]

\* this._verify(...)
VerifyCall(args) == [ev |-> "verify", args |-> args]

\* The application calls verified(error, user, info)
VerifiedCall(completion) == [ev |-> "verified", completion |-> completion]

\* this.success, this.fail or this.error
SignalCall(signal) == [ev |-> "signal", signal |-> signal]

\* An exception leaves the callback the transport called
ThrowOut(exception) == [ev |-> "throw", exception |-> exception]

IsGet(e) == e.ev = "get"

IsCallback(e) == e.ev = "callback"

IsDone(e) == e.ev = "done"

IsVerify(e) == e.ev = "verify"

IsVerified(e) == e.ev = "verified"

IsSignal(e) == e.ev = "signal"

IsThrow(e) == e.ev = "throw"

Gets(a) == SelectSeq(log[a], IsGet)

Callbacks(a) == SelectSeq(log[a], IsCallback)

Dones(a) == SelectSeq(log[a], IsDone)

Verifies(a) == SelectSeq(log[a], IsVerify)

Signals(a) == SelectSeq(log[a], IsSignal)

Thrown(a) == SelectSeq(log[a], IsThrow)

---------------------------------------------------------------------------
(* authenticate *)

\* Mutant of verified: the user is tested before the error.
verifiedUserFirst(completion) ==
    IF "user" \in DOMAIN completion
    THEN IF "info" \in DOMAIN completion
         THEN [kind |-> "success", user |-> completion.user, info |-> completion.info]
         ELSE [kind |-> "success", user |-> completion.user]
    ELSE IF "error" \in DOMAIN completion
    THEN [kind |-> "error", error |-> completion.error]
    ELSE IF "info" \in DOMAIN completion
         THEN [kind |-> "fail", info |-> completion.info]
         ELSE [kind |-> "fail"]

\* const verified = (error, user, info) => ...: the signal it sends
verified(completion) ==
    IF "error" \in DOMAIN completion THEN [kind |-> "error", error |-> completion.error]
    ELSE IF "user" \notin DOMAIN completion
    THEN IF "info" \in DOMAIN completion
         THEN [kind |-> "fail", info |-> completion.info]
         ELSE [kind |-> "fail"]
    ELSE IF "info" \in DOMAIN completion
         THEN [kind |-> "success", user |-> completion.user, info |-> completion.info]
         ELSE [kind |-> "success", user |-> completion.user]

\* Mutant of VerifyArgs: this._passReqToCallback is not tested.
VerifyArgsNoReq(this, r, at, rt, p) ==
    [accessToken |-> at, refreshToken |-> rt, profile |-> p]

\* The arguments of this._verify, less the callback verified
VerifyArgs(this, r, at, rt, p) ==
    IF this.passReqToCallback
    THEN [req |-> r, accessToken |-> at, refreshToken |-> rt, profile |-> p]
    ELSE [accessToken |-> at, refreshToken |-> rt, profile |-> p]

\* Mutant of LoadedError: this.error(error) without the return, so that the
\* callback goes on to call this._verify.
LoadedErrorNoReturn(e) ==
    << DoneCall([error |-> e]), SignalCall([kind |-> "error", error |-> e]),
       VerifyCall(Nil) >>

\* The callback authenticate passes to _loadUserProfile, called with an
\* error: the calls that follow
LoadedError(e) ==
    <<DoneCall([error |-> e]), SignalCall([kind |-> "error", error |-> e])>>

\* The same callback, called with a profile: it calls this._verify
LoadedProfile(this, r, at, rt, p) ==
    <<DoneCall([profile |-> p]), VerifyCall(VerifyArgs(this, r, at, rt, p))>>

\* Mutant of ClosureAccessToken: the token is kept on the strategy, where
\* another call of authenticate overwrites it.
SharedAccessToken(a) ==
    IF \E b \in Attempts \ {a} : Truthy(accessToken[b])
    THEN accessToken[CHOOSE b \in Attempts \ {a} : Truthy(accessToken[b])]
    ELSE accessToken[a]

\* let accessToken of authenticate, as its callbacks read it
ClosureAccessToken(a) == accessToken[a]

\* Mutant of ClosureProfile: the profile is kept on the strategy, where
\* another call of userProfile overwrites it.
SharedProfile(a) ==
    IF \E b \in Attempts \ {a} : profile[b] # Nil
    THEN profile[CHOOSE b \in Attempts \ {a} : profile[b] # Nil]
    ELSE profile[a]

\* let profile of the primary callback, as the secondary callback reads it
ClosureProfile(a) == profile[a]

\* The strategy is constructed; the host will call authenticate once.
Init ==
    /\ strategy \in { Constructor(s, o) : s \in Sources, o \in Options }
    /\ incoming = {1}
    /\ pc = [a \in Attempts |-> "idle"]
    /\ req = [a \in Attempts |-> Nil]
    /\ accessToken = [a \in Attempts |-> Undefined]
    /\ refreshToken = [a \in Attempts |-> Undefined]
    /\ profile = [a \in Attempts |-> Nil]
    /\ log = [a \in Attempts |-> <<>>]

\* authenticate(req, options), up to the return of this._oauth2.get
Authenticate(a) ==
    /\ a \in incoming
    /\ \E r \in RequestsFor(strategy) :
         LET at == Extract(strategy.source, r, strategy.accessTokenField)
             rt == Extract(strategy.source, r, strategy.refreshTokenField)
         IN  /\ incoming' = incoming \ {a}
             /\ req' = [req EXCEPT ![a] = r]
             /\ accessToken' = [accessToken EXCEPT ![a] = at]
             /\ refreshToken' = [refreshToken EXCEPT ![a] = rt]
             /\ IF ~Truthy(at)
                THEN /\ log' = [log EXCEPT ![a] =
                            <<SignalCall([kind |-> "fail",
                                          info |-> FailMessage(strategy.accessTokenField)])>>]
                     /\ pc' = [pc EXCEPT ![a] = "end"]
                ELSE \* this._loadUserProfile calls this.userProfile
                     /\ log' = [log EXCEPT ![a] = <<GetCall(strategy.profileURL, at)>>]
                     /\ pc' = [pc EXCEPT ![a] = "primary"]
    /\ UNCHANGED <<strategy, profile>>

\* The callback of the primary this._oauth2.get
PrimaryCallback(a) ==
    /\ pc[a] = "primary"
    /\ \E response \in PrimaryResponsesFor(strategy, req[a]) :
         LET heard == Append(log[a], CallbackCall("primary", response))
             parsed == ParseProfile(strategy.source, response.body)
         IN  IF "error" \in DOMAIN response
             THEN /\ log' = [log EXCEPT ![a] =
                         heard \o LoadedError(ProfileError(response.error))]
                  /\ pc' = [pc EXCEPT ![a] = "end"]
                  /\ UNCHANGED profile
             ELSE IF "error" \in DOMAIN parsed
             THEN /\ log' = [log EXCEPT ![a] = heard \o LoadedError(parsed.error)]
                  /\ pc' = [pc EXCEPT ![a] = "end"]
                  /\ UNCHANGED profile
             ELSE /\ profile' = [profile EXCEPT ![a] = parsed.profile]
                  /\ IF WantsEmails(strategy)
                     THEN /\ log' = [log EXCEPT ![a] =
                                 Append(heard, GetCall(strategy.profileURL \o "/emails",
                                                       ClosureAccessToken(a)))]
                          /\ pc' = [pc EXCEPT ![a] = "secondary"]
                     ELSE /\ log' = [log EXCEPT ![a] =
                                 heard \o LoadedProfile(strategy, req[a],
                                                        ClosureAccessToken(a),
                                                        refreshToken[a], parsed.profile)]
                          /\ pc' = [pc EXCEPT ![a] = "verify"]
    /\ UNCHANGED <<strategy, incoming, req, accessToken, refreshToken>>

\* The callback of the secondary this._oauth2.get
SecondaryCallback(a) ==
    /\ pc[a] = "secondary"
    /\ \E response \in SecondaryResponsesFor(strategy, req[a]) :
         LET heard == Append(log[a], CallbackCall("secondary", response))
             enriched == EnrichProfile(ClosureProfile(a), response)
         IN  IF "throw" \in DOMAIN enriched
             THEN /\ log' = [log EXCEPT ![a] = Append(heard, ThrowOut(enriched.throw))]
                  /\ pc' = [pc EXCEPT ![a] = "end"]
                  /\ UNCHANGED profile
             ELSE /\ profile' = [profile EXCEPT ![a] = enriched.profile]
                  /\ log' = [log EXCEPT ![a] =
                         heard \o LoadedProfile(strategy, req[a], ClosureAccessToken(a),
                                                refreshToken[a], enriched.profile)]
                  /\ pc' = [pc EXCEPT ![a] = "verify"]
    /\ UNCHANGED <<strategy, incoming, req, accessToken, refreshToken>>

\* this._verify calls verified
VerifyCompletes(a) ==
    /\ pc[a] = "verify"
    /\ \E completion \in CompletionsFor(strategy, req[a]) :
         log' = [log EXCEPT ![a] =
                    @ \o <<VerifiedCall(completion), SignalCall(verified(completion))>>]
    /\ pc' = [pc EXCEPT ![a] = "end"]
    /\ UNCHANGED <<strategy, incoming, req, accessToken, refreshToken, profile>>

\* What follows when this._verify throws instead of calling verified.  In
\* part_000 the call done(null, profile) stands inside the try of
\* userProfile, whose catch calls done(e); in index.js it stands after the
\* try, and the exception leaves the callback of the transport.
VerifyThrew(source, e) ==
    IF source = "part_000" THEN LoadedError(e) ELSE <<ThrowOut(e)>>

\* this._verify throws (explored with the plain request, as the completions)
VerifyThrows(a) ==
    /\ pc[a] = "verify"
    /\ req[a] = PlainRequest(strategy)
    /\ log' = [log EXCEPT ![a] =
                  @ \o VerifyThrew(strategy.source,
                                   [name |-> "Error", message |-> "verify threw"])]
    /\ pc' = [pc EXCEPT ![a] = "end"]
    /\ UNCHANGED <<strategy, incoming, req, accessToken, refreshToken, profile>>

Next ==
    \E a \in Attempts :
        \/ Authenticate(a)
        \/ PrimaryCallback(a)
        \/ SecondaryCallback(a)
        \/ VerifyCompletes(a)
        \/ VerifyThrows(a)

Spec == Init /\ [][Next]_vars

\* The transport calls back and verify returns: every pending callback runs.
FairSpec == Spec /\ WF_vars(Next)

\* The host calls authenticate twice on the strategy, and the callbacks of
\* the two attempts run in any order.
InitTwo ==
    /\ strategy \in { Constructor(s, o) : s \in Sources, o \in Options }
    /\ incoming = Attempts
    /\ pc = [a \in Attempts |-> "idle"]
    /\ req = [a \in Attempts |-> Nil]
    /\ accessToken = [a \in Attempts |-> Undefined]
    /\ refreshToken = [a \in Attempts |-> Undefined]
    /\ profile = [a \in Attempts |-> Nil]
    /\ log = [a \in Attempts |-> <<>>]

SpecTwo == InitTwo /\ [][Next]_vars


---------------------------------------------------------------------------
(* Claims *)

\* The attempts in which authenticate has run.
Started == { a \in Attempts : pc[a] # "idle" }

\* The request carries a non-empty value for the field at the location.
Carries(r, location, field) ==
    /\ location \in DOMAIN r
    /\ field \in DOMAIN r[location]
    /\ r[location][field] \notin {"", Undefined}

\* The request carries a non-empty header whose name is the field's in any
\* casing.
HeaderCarries(r, field) ==
    /\ "headers" \in DOMAIN r
    /\ \E k \in DOMAIN r.headers :
         ToLowerCase(k) = ToLowerCase(field) /\ r.headers[k] \notin {"", Undefined}

\* C1: every attempt sends exactly one of success, fail and error: never
\* more than one, and one once no callback of the attempt is pending.
C1_ExactlyOneSignal ==
    \A a \in Attempts :
        /\ Len(Signals(a)) <= 1
        /\ pc[a] = "end" => Len(Signals(a)) = 1

\* C2: when body, query and headers all lack a non-empty access token, the
\* attempt consists of one call, this.fail, with a message that names the
\* configured field: no call of the transport, none of verify.
C2_MissingTokenFails ==
    \A a \in Started :
        ( /\ ~Carries(req[a], "body", strategy.accessTokenField)
          /\ ~Carries(req[a], "query", strategy.accessTokenField)
          /\ ~HeaderCarries(req[a], strategy.accessTokenField) )
        => /\ Len(log[a]) = 1
           /\ log[a][1].ev = "signal"
           /\ log[a][1].signal.kind = "fail"
           /\ \E i \in DOMAIN log[a][1].signal.info.message :
                log[a][1].signal.info.message[i] = strategy.accessTokenField

C2_Witness ==
    \E a \in Started :
        /\ ~Carries(req[a], "body", strategy.accessTokenField)
        /\ ~Carries(req[a], "query", strategy.accessTokenField)
        /\ ~HeaderCarries(req[a], strategy.accessTokenField)
        /\ "headers" \in DOMAIN req[a]
        /\ "body" \in DOMAIN req[a]
        /\ strategy.accessTokenField \in DOMAIN req[a].body
        /\ strategy.accessTokenField = "Access_Token"
        /\ Len(Signals(a)) = 1
        /\ Signals(a)[1].signal.kind = "fail"

\* The first non-empty value of the field in the order body, query, headers
\* (the header named exactly as the field).
FirstNonEmpty(r, field) ==
    IF Carries(r, "body", field) THEN r.body[field]
    ELSE IF Carries(r, "query", field) THEN r.query[field]
    ELSE IF Carries(r, "headers", field) THEN r.headers[field]
    ELSE Undefined

\* C3: each token is the first non-empty value of its field in the order
\* body, query, headers, and an attempt whose access token is found that
\* way calls the transport with it.
C3_ExtractionOrder ==
    \A a \in Started :
        LET at == FirstNonEmpty(req[a], strategy.accessTokenField)
            rt == FirstNonEmpty(req[a], strategy.refreshTokenField)
        IN  /\ Truthy(at) => /\ accessToken[a] = at
                             /\ Len(Gets(a)) >= 1
                             /\ Gets(a)[1].accessToken = at
            /\ Truthy(rt) => refreshToken[a] = rt

\* C4: a success follows, in this order, the primary call of the transport
\* with the extracted token, its callback with a body that parsed, done with
\* a profile, verify with that token and that profile, and verified with a
\* user and no error.  verify is called only when every call of the
\* transport has been answered, and never after a signal.
C4_SuccessOnlyAfterVerify ==
    \A a \in Attempts :
        LET l == log[a]
        IN  /\ \A v \in 1..Len(l) :
                 l[v].ev = "verify" =>
                    /\ \A i \in 1..(v - 1) : l[i].ev \notin {"signal", "throw"}
                    /\ Len(SelectSeq(SubSeq(l, 1, v), IsGet)) >= 1
                    /\ Len(SelectSeq(SubSeq(l, 1, v), IsGet))
                         = Len(SelectSeq(SubSeq(l, 1, v), IsCallback))
                    /\ v > 1 /\ l[v - 1].ev = "done"
                    /\ "profile" \in DOMAIN l[v - 1].result
            /\ \A i \in 1..Len(l) :
                 (l[i].ev = "signal" /\ l[i].signal.kind = "success") =>
                    /\ Truthy(accessToken[a])
                    /\ i \in {6, 8}
                    /\ l[1] = GetCall(strategy.profileURL, accessToken[a])
                    /\ l[2].ev = "callback" /\ l[2].call = "primary"
                    /\ "body" \in DOMAIN l[2].response
                    /\ "json" \in DOMAIN l[2].response.body
                    /\ l[i - 3].ev = "done" /\ "profile" \in DOMAIN l[i - 3].result
                    /\ l[i - 2].ev = "verify"
                    /\ "accessToken" \in DOMAIN l[i - 2].args
                    /\ l[i - 2].args.accessToken = accessToken[a]
                    /\ l[i - 2].args.profile = l[i - 3].result.profile
                    /\ l[i - 1].ev = "verified"
                    /\ "error" \notin DOMAIN l[i - 1].completion
                    /\ "user" \in DOMAIN l[i - 1].completion
                    /\ Len(Verifies(a)) = 1

C4_Witness ==
    \E a \in Attempts :
        /\ Len(Gets(a)) = 2
        /\ Len(Signals(a)) = 1
        /\ Signals(a)[1].signal.kind = "success"
        /\ "emails" \in DOMAIN Dones(a)[1].result.profile
        /\ Len(Dones(a)[1].result.profile.emails) = 2

\* C5: the signal that follows verified(error, user, info) is error(error)
\* when there is an error, whatever user and info are; otherwise fail(info)
\* when there is no user; otherwise success(user, info).
C5_CompletionMapsToSignal ==
    \A a \in Attempts :
        \A i \in 1..Len(log[a]) :
            log[a][i].ev = "verified" =>
                /\ i < Len(log[a])
                /\ log[a][i + 1].ev = "signal"
                /\ LET c == log[a][i].completion
                       s == log[a][i + 1].signal
                   IN  IF "error" \in DOMAIN c
                       THEN s = [kind |-> "error", error |-> c.error]
                       ELSE /\ s.kind = IF "user" \in DOMAIN c THEN "success" ELSE "fail"
                            /\ "user" \in DOMAIN c =>
                                 "user" \in DOMAIN s /\ s.user = c.user
                            /\ "user" \notin DOMAIN c => "user" \notin DOMAIN s
                            /\ "info" \in DOMAIN c =>
                                 "info" \in DOMAIN s /\ s.info = c.info
                            /\ "info" \notin DOMAIN c => "info" \notin DOMAIN s

C5_Witness ==
    \E a \in Attempts :
        \E i \in 1..Len(log[a]) :
            /\ log[a][i].ev = "verified"
            /\ DOMAIN log[a][i].completion = {"error", "user", "info"}
            /\ i < Len(log[a])
            /\ log[a][i + 1].ev = "signal"
            /\ log[a][i + 1].signal.kind = "error"


\* The response the transport gave to the primary (secondary) call of an
\* attempt that has heard it.
HeardPrimary(a) == Len(Callbacks(a)) >= 1

HeardSecondary(a) == Len(Callbacks(a)) >= 2

PrimaryResponse(a) == Callbacks(a)[1].response

SecondaryResponse(a) == Callbacks(a)[2].response

\* C6: when the body of the primary response is not JSON, the attempt is:
\* the primary call, its callback, done with a SyntaxError and no profile,
\* this.error with that error; no secondary call, no call of verify.
C6_PrimaryParseError ==
    \A a \in Attempts :
        ( /\ HeardPrimary(a)
          /\ "body" \in DOMAIN PrimaryResponse(a)
          /\ PrimaryResponse(a).body = NotJSON )
        => /\ Len(log[a]) = 4
           /\ log[a][1].ev = "get"
           /\ log[a][2].ev = "callback"
           /\ log[a][3] = DoneCall([error |-> [name |-> "SyntaxError"]])
           /\ log[a][4] = SignalCall([kind |-> "error", error |-> [name |-> "SyntaxError"]])

C6_Witness ==
    \E a \in Attempts :
        /\ HeardPrimary(a)
        /\ "body" \in DOMAIN PrimaryResponse(a)
        /\ PrimaryResponse(a).body = NotJSON
        /\ WantsEmails(strategy)
        /\ Len(Signals(a)) = 1
        /\ Signals(a)[1].signal.kind = "error"

\* What C7 says of an attempt whose primary call reported an error: the
\* attempt is the call, its callback, done with an InternalOAuthError and
\* no profile, this.error with it; the error is classified(error) when
\* that holds and the generic one wrapping the transport's error otherwise.
PrimaryErrorHandled(a, classified) ==
    LET error == PrimaryResponse(a).error
    IN  /\ Len(log[a]) = 4
        /\ log[a][1].ev = "get"
        /\ log[a][3].ev = "done"
        /\ DOMAIN log[a][3].result = {"error"}
        /\ log[a][4].ev = "signal"
        /\ log[a][4].signal.kind = "error"
        /\ log[a][3].result.error.name = "InternalOAuthError"
        /\ log[a][4].signal.error.name = "InternalOAuthError"
        /\ log[a][4].signal.error.message = log[a][3].result.error.message
        /\ IF classified
           THEN /\ log[a][3].result.error.message
                     = ( IF error.data.json.t = "object"
                         THEN Prop(error.data.json.o, "message") ELSE Undefined )
                /\ log[a][3].result.error.oauthError = error.statusCode
                /\ log[a][4].signal.error.oauthError = error.statusCode
           ELSE /\ log[a][3].result.error.message = "Failed to fetch user profile"
                /\ log[a][3].result.error.oauthError = error
                /\ log[a][4].signal.error.oauthError = error

\* C7 as stated: the error carries the provider's message and status code
\* whenever the data of the transport's error parses as JSON.
C7_PrimaryTransportError_Original ==
    \A a \in Attempts :
        (HeardPrimary(a) /\ "error" \in DOMAIN PrimaryResponse(a))
        => PrimaryErrorHandled(a,
              /\ "data" \in DOMAIN PrimaryResponse(a).error
              /\ "json" \in DOMAIN PrimaryResponse(a).error.data)

\* C7, amended: the error carries the provider's message and status code
\* when the data of the transport's error parses as JSON to a value other
\* than null; when the data is missing, is not JSON or is the JSON null, it
\* is the generic error wrapping the transport's error.
C7_PrimaryTransportError ==
    \A a \in Attempts :
        (HeardPrimary(a) /\ "error" \in DOMAIN PrimaryResponse(a))
        => PrimaryErrorHandled(a,
              /\ "data" \in DOMAIN PrimaryResponse(a).error
              /\ "json" \in DOMAIN PrimaryResponse(a).error.data
              /\ PrimaryResponse(a).error.data.json # [t |-> "null"])

C7_Witness ==
    \E a \in Attempts :
        /\ HeardPrimary(a)
        /\ "error" \in DOMAIN PrimaryResponse(a)
        /\ "data" \in DOMAIN PrimaryResponse(a).error
        /\ "json" \in DOMAIN PrimaryResponse(a).error.data
        /\ Len(Signals(a)) = 1
        /\ Signals(a)[1].signal.kind = "error"
        /\ Signals(a)[1].signal.error.message = "Bad credentials"
        /\ WantsEmails(strategy)

\* The secondary response is not a non-empty list of email records: an
\* error, a body that is not JSON, or JSON that is no list or an empty one.
Degraded(response) ==
    \/ "error" \in DOMAIN response
    \/ "json" \notin DOMAIN response.body
    \/ response.body.json.t # "array"
    \/ response.body.json.a = <<>>

\* The place in the log of the callback of the secondary call.
SecondaryAt(a) ==
    CHOOSE k \in 1..Len(log[a]) :
        log[a][k].ev = "callback" /\ log[a][k].call = "secondary"

\* C8: for such a secondary response the callback calls done (no exception
\* leaves it) with no error and with the profile built from the primary
\* response, and userProfile has called done once.
C8_SecondaryDegrades ==
    \A a \in Attempts :
        (HeardSecondary(a) /\ Degraded(SecondaryResponse(a)))
        => /\ Len(log[a]) > SecondaryAt(a)
           /\ log[a][SecondaryAt(a) + 1]
                = DoneCall([profile |-> Normalize(strategy.source, PrimaryResponse(a).body)])
           /\ Len(Dones(a)) = 1

\* json.email of the primary response is missing
LacksEmail(response) ==
    \/ response.body.json.t # "object"
    \/ "email" \notin DOMAIN response.body.json.o

\* C9: every profile passed to done has at least one entry in emails, and
\* the first one has the value '' when the primary JSON has no email.
C9_EmailsNeverEmpty ==
    \A a \in Attempts :
        \A i \in 1..Len(Dones(a)) :
            "profile" \in DOMAIN Dones(a)[i].result =>
                /\ "emails" \in DOMAIN Dones(a)[i].result.profile
                /\ Len(Dones(a)[i].result.profile.emails) >= 1
                /\ LacksEmail(PrimaryResponse(a)) =>
                     Dones(a)[i].result.profile.emails[1].value = ""


\* The emails built from the primary response, before any enrichment.
EmailsBefore(a) ==
    IF LacksEmail(PrimaryResponse(a)) THEN <<>>
    ELSE <<[value |-> PrimaryResponse(a).body.json.o.email]>>

\* The secondary response is a non-empty list of email records.
Enriching(a) == HeardSecondary(a) /\ ~Degraded(SecondaryResponse(a))

\* The records of the list whose address is the value of the first entry
\* that existed before enrichment, and the others, by their places.
Matching(a) ==
    { i \in 1..Len(SecondaryResponse(a).body.json.a) :
        /\ EmailsBefore(a) # <<>>
        /\ SecondaryResponse(a).body.json.a[i].email = EmailsBefore(a)[1].value }

Appended(a) == (1..Len(SecondaryResponse(a).body.json.a)) \ Matching(a)

\* C10: after a successful secondary call the emails passed to done are the
\* entries that existed before, in place and with their values, followed by
\* one entry {value, primary, verified} for each record whose address is
\* not the first entry's value, in the order of the response; the first
\* entry carries the flags of the (last) record whose address is its value,
\* and is unchanged when there is none.
C10_EmailMerge ==
    \A a \in Attempts :
        Enriching(a) =>
            LET list == SecondaryResponse(a).body.json.a
                before == EmailsBefore(a)
                emails == Dones(a)[1].result.profile.emails
                last == CHOOSE i \in Matching(a) : \A j \in Matching(a) : j <= i
            IN  /\ Len(Dones(a)) = 1
                /\ Len(emails) = Len(before) + Cardinality(Appended(a))
                /\ \A i \in 1..Len(before) : emails[i].value = before[i].value
                /\ (before # <<>> /\ Matching(a) = {}) => emails[1] = before[1]
                /\ Matching(a) # {} =>
                     emails[1] = [ value |-> before[1].value,
                                   primary |-> list[last].primary,
                                   verified |-> list[last].verified ]
                /\ \A i \in Appended(a) :
                     emails[Len(before) + Cardinality({j \in Appended(a) : j <= i})]
                        = [ value |-> list[i].email,
                            primary |-> list[i].primary,
                            verified |-> list[i].verified ]

C10_Witness ==
    \E a \in Attempts :
        /\ Enriching(a)
        /\ Len(Dones(a)) = 1
        /\ Matching(a) = {2}
        /\ Appended(a) = {1}
        /\ Len(Dones(a)[1].result.profile.emails) = 2
        /\ Dones(a)[1].result.profile.emails[1].verified = TRUE


\* The scope the strategy was constructed with holds the private-email
\* marker.
ScopeHasMarker ==
    /\ "scope" \in DOMAIN strategy
    /\ \E i \in DOMAIN strategy.scope : strategy.scope[i] = "user:email"

\* C11: an attempt calls the transport at most twice, first for the profile
\* URL and then for the profile URL followed by /emails; a call is made only
\* when every earlier call has been answered; the second call is made only
\* after a primary response whose body parsed and only with the marker in
\* the scope; without the marker an attempt that extracted a token makes
\* exactly one call.
C11_TransportCalls ==
    \A a \in Attempts :
        LET l == log[a]
        IN  /\ Len(Gets(a)) <= 2
            /\ Len(Gets(a)) >= 1 => Gets(a)[1].url = "https://api.github.com/user"
            /\ Len(Gets(a)) = 2 =>
                 /\ Gets(a)[2].url = "https://api.github.com/user/emails"
                 /\ ScopeHasMarker
                 /\ HeardPrimary(a)
                 /\ "body" \in DOMAIN PrimaryResponse(a)
                 /\ "json" \in DOMAIN PrimaryResponse(a).body
            /\ \A k \in 1..Len(l) :
                 l[k].ev = "get" =>
                    Len(SelectSeq(SubSeq(l, 1, k - 1), IsGet))
                      = Len(SelectSeq(SubSeq(l, 1, k - 1), IsCallback))
            /\ (a \in Started /\ Truthy(accessToken[a]) /\ ~ScopeHasMarker)
                 => Len(Gets(a)) = 1

C11_Witness ==
    \E a \in Attempts :
        /\ Len(Gets(a)) = 2
        /\ Gets(a)[1].url # Gets(a)[2].url
        /\ Len(Callbacks(a)) = 2
        /\ pc[a] = "end"

\* C12, for the source file that reads the headers: when body and query
\* carry no access token and a header whose name is the configured field's
\* in some casing carries one, that token is the one extracted.
C12_HeaderAnyCasing ==
    \A a \in Started :
        ( /\ strategy.source = "part_000"
          /\ ~Carries(req[a], "body", strategy.accessTokenField)
          /\ ~Carries(req[a], "query", strategy.accessTokenField)
          /\ HeaderCarries(req[a], strategy.accessTokenField) )
        => /\ Truthy(accessToken[a])
           /\ \E k \in DOMAIN req[a].headers :
                /\ ToLowerCase(k) = ToLowerCase(strategy.accessTokenField)
                /\ req[a].headers[k] = accessToken[a]

\* C13: verify is called at most once in an attempt, with (accessToken,
\* refreshToken, profile) and, when passReqToCallback was set, with the
\* request before them: the tokens extracted in this attempt, its request,
\* and the profile its userProfile passed to done.
C13_VerifyArguments ==
    \A a \in Attempts :
        /\ Len(Verifies(a)) <= 1
        /\ \A v \in 1..Len(log[a]) :
             log[a][v].ev = "verify" =>
                LET args == log[a][v].args
                IN  /\ DOMAIN args =
                          IF strategy.passReqToCallback
                          THEN {"req", "accessToken", "refreshToken", "profile"}
                          ELSE {"accessToken", "refreshToken", "profile"}
                    /\ args.accessToken = accessToken[a]
                    /\ args.refreshToken = refreshToken[a]
                    /\ strategy.passReqToCallback => args.req = req[a]
                    /\ v > 1
                    /\ log[a][v - 1] = DoneCall([profile |-> args.profile])

C13_Witness ==
    \E a \in Attempts :
        /\ Len(Verifies(a)) = 1
        /\ strategy.passReqToCallback
        /\ "headers" \in DOMAIN Verifies(a)[1].args.req
        /\ Verifies(a)[1].args.accessToken = "header-token"
        /\ Verifies(a)[1].args.refreshToken = "query-refresh"

\* C14: no exception leaves a callback of the transport on account of the
\* request or of a response (the only exception an attempt may see is the
\* one verify itself throws), and an attempt that saw none and has no
\* callback pending has sent its signal.
C14_NoFaultEscapes ==
    \A a \in Attempts :
        /\ \A i \in 1..Len(log[a]) :
             log[a][i].ev = "throw" => (i > 1 /\ log[a][i - 1].ev = "verify")
        /\ (pc[a] = "end" /\ Thrown(a) = <<>>) => Len(Signals(a)) = 1


\* The places of the emails passed to done that hold the address.
EntriesFor(a, address) ==
    { i \in 1..Len(Dones(a)[1].result.profile.emails) :
        Dones(a)[1].result.profile.emails[i].value = address }

\* The places of the secondary response's list that hold the address.
RecordsFor(a, address) ==
    { j \in 1..Len(SecondaryResponse(a).body.json.a) :
        SecondaryResponse(a).body.json.a[j].email = address }

\* C17, as claimed: after enrichment no two entries of emails hold the same
\* address.
C17_OneEntryPerAddress_Original ==
    \A a \in Attempts :
        (Enriching(a) /\ Len(Dones(a)) = 1) =>
            LET emails == Dones(a)[1].result.profile.emails
            IN  \A i, j \in 1..Len(emails) :
                    emails[i].value = emails[j].value => i = j

\* C17, amended: after enrichment the address of the first entry that
\* existed before holds one entry, whatever the number of records that
\* carry it, and every other address holds one entry for each record of the
\* secondary response that carries it.
C17_OneEntryPerAddress ==
    \A a \in Attempts :
        (Enriching(a) /\ Len(Dones(a)) = 1) =>
            LET emails == Dones(a)[1].result.profile.emails
                list == SecondaryResponse(a).body.json.a
                before == EmailsBefore(a)
                addresses == { emails[i].value : i \in 1..Len(emails) }
                               \cup { list[j].email : j \in 1..Len(list) }
            IN  \A v \in addresses :
                    Cardinality(EntriesFor(a, v)) =
                        IF before # <<>> /\ v = before[1].value
                        THEN 1
                        ELSE Cardinality(RecordsFor(a, v))

C17_Witness ==
    \E a \in Attempts :
        /\ Enriching(a)
        /\ Len(Dones(a)) = 1
        /\ EmailsBefore(a) # <<>>
        /\ Cardinality(RecordsFor(a, "private@github.com")) = 2
        /\ Cardinality(EntriesFor(a, "private@github.com")) = 2
        /\ Len(Dones(a)[1].result.profile.emails) = 3

\* The place of the first space of the name, 0 when it has none.
FirstSpace(name) ==
    IF \E i \in 1..Len(name) : name[i] = " "
    THEN CHOOSE i \in 1..Len(name) :
            name[i] = " " /\ \A j \in 1..(i - 1) : name[j] # " "
    ELSE 0

\* C18: the profile passed to done has the name of the primary response as
\* displayName ('' when absent), the text before its first space as
\* givenName and the whole text after that space as familyName ('' when
\* the name has no space).
C18_NameSplit ==
    \A a \in Attempts :
        \A d \in 1..Len(Dones(a)) :
            "profile" \in DOMAIN Dones(a)[d].result =>
                LET p == Dones(a)[d].result.profile
                    name == NameOf(JSONparse(PrimaryResponse(a).body))
                    space == FirstSpace(name)
                IN  /\ p.displayName = name
                    /\ p.name.givenName =
                         IF space = 0 THEN name ELSE SubSeq(name, 1, space - 1)
                    /\ p.name.familyName =
                         IF space = 0 THEN <<>> ELSE SubSeq(name, space + 1, Len(name))

\* The request carries the field nowhere, whatever the casing of a header.
CarriesNowhere(r, field) ==
    /\ ~Carries(r, "body", field)
    /\ ~Carries(r, "query", field)
    /\ ~HeaderCarries(r, field)

\* C19: an attempt whose request carries an access token in body, query or
\* the header named as the field, and a refresh token nowhere, starts with
\* the call of the transport and passes no refresh token to verify; a
\* refresh token the request carries is extracted wherever the access token
\* was found.
C19_RefreshOptional ==
    \A a \in Started :
        /\ ( /\ Truthy(FirstNonEmpty(req[a], strategy.accessTokenField))
             /\ CarriesNowhere(req[a], strategy.refreshTokenField) )
           => /\ log[a] # <<>>
              /\ log[a][1].ev = "get"
              /\ ~Truthy(refreshToken[a])
              /\ \A v \in 1..Len(Verifies(a)) :
                    ~Truthy(Verifies(a)[v].args.refreshToken)
        /\ ( /\ Truthy(FirstNonEmpty(req[a], strategy.accessTokenField))
             /\ Truthy(FirstNonEmpty(req[a], strategy.refreshTokenField)) )
           => refreshToken[a] = FirstNonEmpty(req[a], strategy.refreshTokenField)

\* The profile less its emails.
LessEmails(p) == [k \in DOMAIN p \ {"emails"} |-> p[k]]

\* C20: every profile that done receives after the callback of the
\* secondary call equals, emails apart, the profile built from the primary
\* response, and its first entry of emails, when the primary response gave
\* one, holds the value it held.
C20_EnrichmentFrame ==
    \A a \in Attempts :
        HeardSecondary(a) =>
            \A k \in (SecondaryAt(a) + 1)..Len(log[a]) :
                (log[a][k].ev = "done" /\ "profile" \in DOMAIN log[a][k].result) =>
                    LET p == log[a][k].result.profile
                        built == Normalize(strategy.source, PrimaryResponse(a).body)
                    IN  /\ LessEmails(p) = LessEmails(built)
                        /\ "emails" \in DOMAIN built =>
                             /\ "emails" \in DOMAIN p
                             /\ Len(p.emails) >= 1
                             /\ p.emails[1].value = built.emails[1].value

C20_Witness ==
    \E a \in Attempts :
        /\ Enriching(a)
        /\ Len(Dones(a)) = 1
        /\ Matching(a) # {}
        /\ Appended(a) # {}
        /\ Dones(a)[1].result.profile.emails[1].value = EmailsBefore(a)[1].value
        /\ Dones(a)[1].result.profile.raw = PrimaryResponse(a).body


\* The profile userProfile builds from the responses the attempt itself
\* received.
OwnProfile(a) ==
    LET built == Normalize(strategy.source, PrimaryResponse(a).body)
    IN  IF HeardSecondary(a)
        THEN EnrichProfile(built, SecondaryResponse(a)).profile
        ELSE built

\* The signal the attempt sends when it runs alone with the request, the
\* responses and the completion it received.
OwnSignal(a) ==
    LET at == Extract(strategy.source, req[a], strategy.accessTokenField)
        completions == SelectSeq(log[a], LAMBDA e : e.ev = "verified")
    IN  IF ~Truthy(at)
        THEN [kind |-> "fail", info |-> FailMessage(strategy.accessTokenField)]
        ELSE IF "error" \in DOMAIN PrimaryResponse(a)
        THEN [kind |-> "error", error |-> ProfileError(PrimaryResponse(a).error)]
        ELSE IF "error" \in DOMAIN ParseProfile(strategy.source, PrimaryResponse(a).body)
        THEN [kind |-> "error",
              error |-> ParseProfile(strategy.source, PrimaryResponse(a).body).error]
        ELSE IF completions # <<>>
        THEN verified(completions[1].completion)
        ELSE [kind |-> "error", error |-> Dones(a)[Len(Dones(a))].result.error]

\* C15: whatever the order in which the callbacks of two attempts run, each
\* call of the transport and of verify carries the tokens of the attempt's
\* own request, verify receives the profile built from the attempt's own
\* responses, and the signal of the attempt is the one it sends when it
\* runs alone.
C15_AttemptsIsolated ==
    \A a \in Attempts :
        /\ \A k \in 1..Len(log[a]) :
             /\ log[a][k].ev = "get" =>
                  log[a][k].accessToken
                     = Extract(strategy.source, req[a], strategy.accessTokenField)
             /\ log[a][k].ev = "verify" =>
                  /\ log[a][k].args.accessToken
                        = Extract(strategy.source, req[a], strategy.accessTokenField)
                  /\ log[a][k].args.refreshToken
                        = Extract(strategy.source, req[a], strategy.refreshTokenField)
                  /\ strategy.passReqToCallback => log[a][k].args.req = req[a]
                  /\ log[a][k].args.profile = OwnProfile(a)
        /\ \A k \in 1..Len(Signals(a)) : Signals(a)[k].signal = OwnSignal(a)

\* Both attempts wait for verified at the same time, with different tokens
\* and with different profiles, each enriched by its own secondary
\* response.
C15_Witness ==
    /\ \A a \in Attempts : pc[a] = "verify" /\ Len(Verifies(a)) = 1
    /\ accessToken[1] # accessToken[2]
    /\ HeardSecondary(1)
    /\ HeardSecondary(2)
    /\ Enriching(1)
    /\ PrimaryResponse(1) # PrimaryResponse(2)
    /\ Verifies(1)[1].args.profile # Verifies(2)[1].args.profile

\* userProfile has called done in the attempt, or an exception left it.
ProfileSettled(a) == pc[a] \in {"verify", "end"} /\ HeardPrimary(a)

\* C16: two calls of userProfile on one strategy that are given the same
\* access token and receive the same responses from the transport pass the
\* same error or the same profile to done, whichever ran first and however
\* their callbacks alternate.
C16_UserProfileDeterministic ==
    \A a, b \in Attempts :
        ( /\ ProfileSettled(a)
          /\ ProfileSettled(b)
          /\ Gets(a)[1].accessToken = Gets(b)[1].accessToken
          /\ Callbacks(a) = Callbacks(b) )
        => /\ (Dones(a) = <<>>) = (Dones(b) = <<>>)
           /\ Dones(a) # <<>> => Dones(a)[1] = Dones(b)[1]

C16_Witness ==
    /\ ProfileSettled(1)
    /\ ProfileSettled(2)
    /\ accessToken[1] = accessToken[2]
    /\ Callbacks(1) = Callbacks(2)
    /\ Enriching(1)
    /\ Len(Dones(1)) = 1
    /\ Len(Dones(2)) = 1
    /\ Len(Dones(1)[1].result.profile.emails) = 2
    /\ pc[1] = "end"
    /\ pc[2] = "verify"

====
